---- MODULE Spec2Model ----
(***************************************************************************)
(* PromptPal: the authenticated request client (lib/api, the axios         *)
(* instance `api` with axios-retry and the two interceptors) and the       *)
(* SyncManager (lib/syncManager.ts).                                       *)
(*                                                                         *)
(* SpecApi  : calls through `api`: request interceptor, backoff retries,   *)
(*            the 401 handler with token refresh, sign-out.                *)
(* SpecSync : SyncManager's guarded and forced sync cycles.                *)
(* SpecUpload : one sync cycle whose uploads go through `api`.             *)
(* SpecQueue : the offline action queue kept in SecureStore.               *)
(* SpecDrain : the offline queue with its posts going through `api`.       *)
(* SpecReconnect : the offline queue and the online signal.                *)
(* SpecOverlap : the offline queue with overlapping drains.                *)
(* SpecManager : the periodic timer, the online signal and the queue.      *)
(***************************************************************************)
EXTENDS Integers, Sequences, FiniteSets, TLC

\* ------------------------------------------------------------------ bounds
NCalls == 2          \* calls issued through `api`
MaxTok == 2          \* distinct token values
MaxTasks == 2        \* syncUserProgress / forceSync invocations alive at once
MaxTimers == 2       \* interval timers alive at once
MaxSuspended == 1    \* forceSync calls suspended on a finished syncUserProgress
MaxProgress == 2     \* states the progress store goes through
MaxEnqueues == 2     \* queueOfflineAction invocations alive at once
MaxDrains == 2       \* processOfflineQueue invocations alive at once

Calls == 1..NCalls
Tokens == 1..MaxTok
Tasks == 1..MaxTasks
TimerIds == 1..MaxTimers
ProgressStates == 1..MaxProgress
Enqueues == 1..MaxEnqueues
Drains == 1..MaxDrains

\* ------------------------------------------------------- program constants
RETRIES == 3                 \* axiosRetry(api, { retries: 3 })
MAX_SYNC_RETRIES == 3
SYNC_RETRY_DELAY_MS == 1000
Unauthorized == 401
TooManyRequests == 429
ServerErrorFloor == 500

\* ------------------------------------------------------------- value space
NullToken == 0               \* `null`: what a token source yields when it has no token
Thrown == 0 - 1              \* the token source (or the refresh) threw
Pending == 0 - 2             \* a refresh attempt that has not settled
NoHeader == 0                \* config.headers.Authorization is absent
NoResponse == 0              \* error.response is undefined

TokenResults == Tokens \cup {NullToken, Thrown}

\* What the transport hands back for one transmission: a 2xx response, or an
\* AxiosError with its response status and code.
Responses ==
    { [status |-> 200, code |-> "OK"],
      [status |-> 401, code |-> "ERR_BAD_REQUEST"],
      [status |-> 403, code |-> "ERR_BAD_REQUEST"],
      [status |-> 429, code |-> "ERR_BAD_REQUEST"],
      [status |-> 500, code |-> "ERR_BAD_RESPONSE"],
      [status |-> NoResponse, code |-> "ERR_NETWORK"],
      [status |-> NoResponse, code |-> "ECONNABORTED"] }

NoError == [status |-> NoResponse, code |-> "NONE"]

\* The calls ApiClient and SyncManager make through `api`.
Requests ==
    { [method |-> "put",  url |-> "/api/user/progress", data |-> "progress"],
      [method |-> "post", url |-> "offline.endpoint",   data |-> "action"] }

IdempotentMethods == {"get", "head", "options", "put", "delete"}

NoConfig == [method |-> "none", url |-> "none", data |-> "none",
             Authorization |-> NoHeader, _retry |-> FALSE, retryCount |-> 0]
NoWire == [method |-> "none", url |-> "none", data |-> "none",
           Authorization |-> NoHeader, carried |-> NoHeader,
           token |-> NullToken, source |-> "none"]
NoRequest == [method |-> "none", url |-> "none", data |-> "none"]
NoStats == [request |-> NoRequest, nTx |-> 0, refreshCalls |-> 0, resends |-> 0,
            resentWith |-> NoHeader, signOuts |-> 0, attempt |-> 0, delays |-> <<>>]
NoneReceived == [n401 |-> 0, nErr |-> 0, last |-> NoResponse, code |-> "NONE"]

VARIABLES
    \* ---- request client
    authTokenProvider,   \* TRUE once setTokenProvider has registered a provider
    pc,                  \* per call: where the call is suspended
    config,              \* per call: the request descriptor (error.config / originalRequest)
    chain,               \* per call: enclosing api() invocations awaiting the nested one
    error,               \* per call: the error being propagated to the caller
    wire,                \* per call: the last transmission as it went out
    stats,               \* per call: what the call has caused so far
    received,            \* per call: what the transport has answered so far
    inFlight,            \* refresh coordinator: id of the live attempt, 0 when none
    refreshResult,       \* refresh coordinator: result of each attempt started
    \* ---- sync manager
    syncInProgress,
    isOnline,
    syncIntervalId,      \* handle of the interval timer, 0 for null
    timers,              \* the interval timers setInterval created and nothing cleared
    task,                \* per slot: one syncUserProgress / forceSync invocation
    continuations,       \* forceSync calls suspended at `await` on a finished
                         \* syncUserProgress: their previousSyncState, oldest first
    lastOp,              \* the SyncManager operation that ran last
    \* ---- local stores
    userProgressStore,   \* useUserProgressStore: the state object it holds
    offline_queue,       \* SecureStore: the item under 'offline_queue'
    enqueue,             \* per slot: one queueOfflineAction invocation
    drain,               \* per slot: one processOfflineQueue invocation
    queueLog             \* what the queue operations have done so far

apiVars == <<authTokenProvider, pc, config, chain, error, wire, stats, received,
             inFlight, refreshResult>>
syncVars == <<syncInProgress, isOnline, syncIntervalId, timers, task, continuations, lastOp>>
localVars == <<userProgressStore, offline_queue, enqueue, drain, queueLog>>
vars == <<apiVars, syncVars, localVars>>

\* ================================================================ request client

\* axiosRetry.isNetworkOrIdempotentRequestError
IsNetworkOrIdempotentRequestError(e, method) ==
    \/ e.status = NoResponse /\ e.code = "ERR_NETWORK"
    \/ /\ method \in IdempotentMethods
       /\ e.code # "ECONNABORTED"
       /\ e.status = NoResponse \/ (e.status >= 500 /\ e.status <= 599)

\* 401 counted among the retryable statuses
retryCondition_Includes401(e, method) ==
    \/ IsNetworkOrIdempotentRequestError(e, method)
    \/ (e.status # NoResponse /\ e.status >= ServerErrorFloor)
    \/ e.status = TooManyRequests
    \/ e.status = Unauthorized

\* every 4xx counted among the retryable statuses, 401 excepted
retryCondition_AllClientErrors(e, method) ==
    \/ IsNetworkOrIdempotentRequestError(e, method)
    \/ (e.status # NoResponse /\ e.status >= 400 /\ e.status # Unauthorized)

retryCondition(e, method) ==
    \/ IsNetworkOrIdempotentRequestError(e, method)
    \/ (e.status # NoResponse /\ e.status >= ServerErrorFloor)
    \/ e.status = TooManyRequests

\* a fixed retry delay
exponentialDelay_Fixed(retryNumber) == 2 * 100

\* axiosRetry.exponentialDelay, in ms, before its random addition
exponentialDelay(retryNumber) == (2 ^ retryNumber) * 100

\* the most the random addition (up to 20 %) makes of a delay
WithJitter(delay) == delay + delay \div 5

\* retry budget off by one
shouldRetry_OffByOne(cfg, e) == cfg.retryCount <= RETRIES /\ retryCondition(e, cfg.method)

\* axios-retry's response interceptor: retry while the budget lasts
shouldRetry(cfg, e) == cfg.retryCount < RETRIES /\ retryCondition(e, cfg.method)

\* the header is assigned on every run, also when there is no token
RequestInterceptor_ClearsHeader(cfg, token) ==
    IF token \in Tokens THEN [cfg EXCEPT !.Authorization = token]
    ELSE [cfg EXCEPT !.Authorization = NoHeader]

\* api.interceptors.request.use: attach the token when the source yields one
RequestInterceptor(cfg, token) ==
    IF token \in Tokens THEN [cfg EXCEPT !.Authorization = token] ELSE cfg

\* the registered provider ignored
TokenSource_CacheOnly == "cache"

\* the request interceptor's choice of token source
TokenSource == IF authTokenProvider THEN "provider" ELSE "cache"

\* api(cfg): run the request interceptor, then put the request on the wire
Transmit(c, cfg, st, token) ==
    LET sent == RequestInterceptor(cfg, token) IN
    /\ config' = [config EXCEPT ![c] = sent]
    /\ wire' = [wire EXCEPT ![c] =
            [method |-> sent.method, url |-> sent.url, data |-> sent.data,
             Authorization |-> sent.Authorization, carried |-> cfg.Authorization,
             token |-> token, source |-> TokenSource]]
    /\ stats' = [stats EXCEPT ![c] = [st EXCEPT !.nTx = @ + 1]]
    /\ pc' = [pc EXCEPT ![c] = "inflight"]

setTokenProvider ==
    /\ authTokenProvider' = TRUE
    /\ UNCHANGED <<pc, config, chain, error, wire, stats, received, inFlight, refreshResult>>
    /\ UNCHANGED <<syncVars, localVars>>

\* A caller issues a request through `api`.
Call(c, r, token) ==
    /\ pc[c] = "idle"
    /\ Transmit(c, [NoConfig EXCEPT !.method = r.method, !.url = r.url, !.data = r.data],
                [stats[c] EXCEPT !.request = r], token)
    /\ UNCHANGED <<authTokenProvider, chain, error, received, inFlight, refreshResult>>
    /\ UNCHANGED <<syncVars, localVars>>

\* a settled attempt kept as the answer for later callers
tryRefreshToken_ReusesSettled(c) ==
    IF refreshResult # <<>>
    THEN /\ stats' = [stats EXCEPT ![c].refreshCalls = @ + 1,
                                   ![c].attempt = Len(refreshResult)]
         /\ UNCHANGED <<inFlight, refreshResult>>
    ELSE /\ refreshResult' = Append(refreshResult, Pending)
         /\ inFlight' = Len(refreshResult) + 1
         /\ stats' = [stats EXCEPT ![c].refreshCalls = @ + 1,
                                   ![c].attempt = Len(refreshResult) + 1]

\* tryRefreshToken(): single-flight; join the live attempt or start one
tryRefreshToken(c) ==
    IF inFlight # 0
    THEN /\ stats' = [stats EXCEPT ![c].refreshCalls = @ + 1, ![c].attempt = inFlight]
         /\ UNCHANGED <<inFlight, refreshResult>>
    ELSE /\ refreshResult' = Append(refreshResult, Pending)
         /\ inFlight' = Len(refreshResult) + 1
         /\ stats' = [stats EXCEPT ![c].refreshCalls = @ + 1,
                                   ![c].attempt = Len(refreshResult) + 1]

\* the handler without the `!originalRequest._retry` test
OnRejected_NoRetryFlagCheck(c, e) ==
    IF e.status = Unauthorized
    THEN /\ config' = [config EXCEPT ![c]._retry = TRUE]
         /\ tryRefreshToken(c)
         /\ pc' = [pc EXCEPT ![c] = "refreshing"]
         /\ error' = [error EXCEPT ![c] = e]
    ELSE /\ pc' = [pc EXCEPT ![c] = "rejecting"]
         /\ error' = [error EXCEPT ![c] = e]
         /\ UNCHANGED <<config, stats, inFlight, refreshResult>>

\* The response interceptor's rejected handler, up to its first await.
OnRejected(c, e) ==
    IF e.status = Unauthorized /\ ~config[c]._retry
    THEN /\ config' = [config EXCEPT ![c]._retry = TRUE]
         /\ tryRefreshToken(c)
         /\ pc' = [pc EXCEPT ![c] = "refreshing"]
         /\ error' = [error EXCEPT ![c] = e]
    ELSE /\ pc' = [pc EXCEPT ![c] = "rejecting"]
         /\ error' = [error EXCEPT ![c] = e]
         /\ UNCHANGED <<config, stats, inFlight, refreshResult>>

\* axios validateStatus: a 2xx response resolves, anything else rejects
Is2xx(e) == e.status >= 200 /\ e.status < 300

\* The transport settles the transmission in flight.
Respond(c, e) ==
    /\ pc[c] = "inflight"
    /\ received' = [received EXCEPT ![c] =
            [n401 |-> @.n401 + (IF e.status = Unauthorized THEN 1 ELSE 0),
             nErr |-> @.nErr + (IF Is2xx(e) \/ e.status = Unauthorized THEN 0 ELSE 1),
             last |-> e.status, code |-> e.code]]
    /\ IF Is2xx(e)
       THEN /\ pc' = [pc EXCEPT ![c] = "resolved"]
            /\ chain' = [chain EXCEPT ![c] = <<>>]
            /\ error' = [error EXCEPT ![c] = NoError]
            /\ UNCHANGED <<config, stats, inFlight, refreshResult>>
       ELSE IF shouldRetry(config[c], e)
       THEN /\ config' = [config EXCEPT ![c].retryCount = @ + 1]
            /\ chain' = [chain EXCEPT ![c] = Append(@, "retry")]
            /\ pc' = [pc EXCEPT ![c] = "backoff"]
            /\ stats' = [stats EXCEPT ![c].delays =
                            Append(@, exponentialDelay(config[c].retryCount + 1))]
            /\ UNCHANGED <<error, inFlight, refreshResult>>
       ELSE /\ OnRejected(c, e)
            /\ UNCHANGED chain
    /\ UNCHANGED <<authTokenProvider, wire>>
    /\ UNCHANGED <<syncVars, localVars>>

\* the retry rebuilt without the request body
BackoffFire_DropsData(c, token) ==
    /\ pc[c] = "backoff"
    /\ Transmit(c, [config[c] EXCEPT !.data = "none"], stats[c], token)
    /\ UNCHANGED <<authTokenProvider, chain, error, received, inFlight, refreshResult>>
    /\ UNCHANGED <<syncVars, localVars>>

\* axios-retry's delay elapses: the descriptor is sent again.
BackoffFire(c, token) ==
    /\ pc[c] = "backoff"
    /\ Transmit(c, config[c], stats[c], token)
    /\ UNCHANGED <<authTokenProvider, chain, error, received, inFlight, refreshResult>>
    /\ UNCHANGED <<syncVars, localVars>>

\* The live refresh attempt settles: a token, null, or an exception.
RefreshSettle(r) ==
    /\ inFlight # 0
    /\ refreshResult' = [refreshResult EXCEPT ![inFlight] = r]
    /\ inFlight' = 0
    /\ UNCHANGED <<authTokenProvider, pc, config, chain, error, wire, stats, received>>
    /\ UNCHANGED <<syncVars, localVars>>

\* the resend without `originalRequest.headers.Authorization = ...`
AfterRefresh_StaleHeader(c, token) ==
    /\ pc[c] = "refreshing"
    /\ refreshResult[stats[c].attempt] # Pending
    /\ LET newToken == refreshResult[stats[c].attempt]
           resent == config[c] IN
       IF newToken \in Tokens
       THEN /\ Transmit(c, resent,
                        [stats[c] EXCEPT !.resends = @ + 1,
                                         !.resentWith = resent.Authorization],
                        token)
            /\ chain' = [chain EXCEPT ![c] = Append(@, "auth")]
       ELSE /\ pc' = [pc EXCEPT ![c] = "signingOut"]
            /\ stats' = [stats EXCEPT ![c].signOuts = @ + 1]
            /\ UNCHANGED <<config, wire, chain>>
    /\ UNCHANGED <<authTokenProvider, error, received, inFlight, refreshResult>>
    /\ UNCHANGED <<syncVars, localVars>>

\* the failure path without `await triggerSignOut()`
AfterRefresh_NoSignOut(c, token) ==
    /\ pc[c] = "refreshing"
    /\ refreshResult[stats[c].attempt] # Pending
    /\ LET newToken == refreshResult[stats[c].attempt]
           resent == [config[c] EXCEPT !.Authorization = newToken] IN
       IF newToken \in Tokens
       THEN /\ Transmit(c, resent,
                        [stats[c] EXCEPT !.resends = @ + 1,
                                         !.resentWith = resent.Authorization],
                        token)
            /\ chain' = [chain EXCEPT ![c] = Append(@, "auth")]
       ELSE /\ pc' = [pc EXCEPT ![c] = "rejecting"]
            /\ UNCHANGED <<config, wire, chain, stats>>
    /\ UNCHANGED <<authTokenProvider, error, received, inFlight, refreshResult>>
    /\ UNCHANGED <<syncVars, localVars>>

\* The 401 handler resumes after `await tryRefreshToken()`.
AfterRefresh(c, token) ==
    /\ pc[c] = "refreshing"
    /\ refreshResult[stats[c].attempt] # Pending
    /\ LET newToken == refreshResult[stats[c].attempt]
           resent == [config[c] EXCEPT !.Authorization = newToken] IN
       IF newToken \in Tokens
       THEN /\ Transmit(c, resent,
                        [stats[c] EXCEPT !.resends = @ + 1,
                                         !.resentWith = resent.Authorization],
                        token)
            /\ chain' = [chain EXCEPT ![c] = Append(@, "auth")]
       ELSE /\ pc' = [pc EXCEPT ![c] = "signingOut"]
            /\ stats' = [stats EXCEPT ![c].signOuts = @ + 1]
            /\ UNCHANGED <<config, wire, chain>>
    /\ UNCHANGED <<authTokenProvider, error, received, inFlight, refreshResult>>
    /\ UNCHANGED <<syncVars, localVars>>

\* `await triggerSignOut()` returns; the handler rejects with the original error.
SignOutDone(c) ==
    /\ pc[c] = "signingOut"
    /\ pc' = [pc EXCEPT ![c] = "rejecting"]
    /\ UNCHANGED <<authTokenProvider, config, chain, error, wire, stats, received,
                   inFlight, refreshResult>>
    /\ UNCHANGED <<syncVars, localVars>>

\* A rejection leaves one api() invocation and reaches the one enclosing it.
Unwind(c) ==
    /\ pc[c] = "rejecting"
    /\ IF chain[c] = <<>>
       THEN /\ pc' = [pc EXCEPT ![c] = "rejected"]
            /\ UNCHANGED <<config, chain, error, stats, inFlight, refreshResult>>
       ELSE /\ chain' = [chain EXCEPT ![c] = SubSeq(@, 1, Len(@) - 1)]
            /\ IF chain[c][Len(chain[c])] = "auth"
               THEN UNCHANGED <<pc, config, error, stats, inFlight, refreshResult>>
               ELSE OnRejected(c, error[c])
    /\ UNCHANGED <<authTokenProvider, wire, received>>
    /\ UNCHANGED <<syncVars, localVars>>

\* ================================================================ sync manager

NoProgress == 0

FreeTask == [kind |-> "none", pc |-> "free", retryCount |-> 0,
             previousSyncState |-> FALSE, delay |-> 0, userProgress |-> NoProgress]

Running == {t \in Tasks : task[t].pc # "free"}
FreeSlot == CHOOSE t \in Tasks : task[t].pc = "free" /\ \A u \in Tasks : task[u].pc = "free" => t <= u

\* the handle setInterval returns: a timer that did not exist
FreeTimer == CHOOSE id \in TimerIds : id \notin timers /\ \A j \in TimerIds \ timers : id <= j

\* Timer callbacks and I/O completions are macrotasks: they run once the
\* continuations already queued have run.
MacrotaskReady == continuations = <<>>

\* The async call a cycle belongs to: forceSync wrapping syncUserProgress, or
\* syncUserProgress itself (the timer callback, syncNow, setOnlineStatus).
Invocation(caller) == IF caller = "forceSync" THEN "forceSync" ELSE "syncUserProgress"

\* forceSync without its finally block
Restored_NotRestored(caller, previousSyncState, value) == value

\* What syncInProgress is once the call has returned to `caller`:
\* forceSync's finally block writes previousSyncState back.
Restored(caller, previousSyncState, value) ==
    IF caller = "forceSync" THEN previousSyncState ELSE value

\* syncUserProgress without its catch block
syncUserProgressPromise_Rethrows(thrown) == IF thrown THEN "rejected" ELSE "resolved"

\* What the promise of syncUserProgress settles to when performSync has thrown
\* or returned: the catch block logs the error and does not rethrow.
syncUserProgressPromise(thrown) == "resolved"

\* forceSync awaits syncUserProgress in try/finally, without a catch.
forceSyncPromise(inner) == inner

\* What the promise handed to `caller` settles to.
Promise(caller, thrown) ==
    IF caller = "forceSync"
    THEN forceSyncPromise(syncUserProgressPromise(thrown))
    ELSE syncUserProgressPromise(thrown)

\* syncUserProgress without the `if (this.syncInProgress)` early return
syncUserProgress_NoInProgressGuard(caller, inProgress, online, previousSyncState) ==
    IF ~online
    THEN /\ lastOp' = <<caller, "skip:offline">>
         /\ syncInProgress' = inProgress
         /\ UNCHANGED task
    ELSE /\ Running # Tasks
         /\ lastOp' = <<caller, "started">>
         /\ syncInProgress' = TRUE
         /\ task' = [task EXCEPT ![FreeSlot] =
                [kind |-> Invocation(caller), pc |-> "upload", retryCount |-> 0,
                 previousSyncState |-> previousSyncState, delay |-> 0,
                 userProgress |-> userProgressStore]]

\* syncUserProgress without the `if (!this.isOnline)` early return
syncUserProgress_NoOnlineGuard(caller, inProgress, online, previousSyncState) ==
    IF inProgress
    THEN /\ lastOp' = <<caller, "skip:inProgress">>
         /\ syncInProgress' = inProgress
         /\ UNCHANGED task
    ELSE /\ Running # Tasks
         /\ lastOp' = <<caller, "started">>
         /\ syncInProgress' = TRUE
         /\ task' = [task EXCEPT ![FreeSlot] =
                [kind |-> Invocation(caller), pc |-> "upload", retryCount |-> 0,
                 previousSyncState |-> previousSyncState, delay |-> 0,
                 userProgress |-> userProgressStore]]

\* SyncManager.syncUserProgress up to its first await, entered from `caller` with
\* the flags as the caller left them.
syncUserProgress(caller, inProgress, online, previousSyncState) ==
    IF inProgress
    THEN /\ lastOp' = <<caller, "skip:inProgress">>
         /\ syncInProgress' = inProgress
         /\ UNCHANGED task
    ELSE IF ~online
    THEN /\ lastOp' = <<caller, "skip:offline">>
         /\ syncInProgress' = inProgress
         /\ UNCHANGED task
    ELSE /\ Running # Tasks
         /\ lastOp' = <<caller, "started">>
         /\ syncInProgress' = TRUE
         /\ task' = [task EXCEPT ![FreeSlot] =
                [kind |-> Invocation(caller), pc |-> "upload", retryCount |-> 0,
                 previousSyncState |-> previousSyncState, delay |-> 0,
                 userProgress |-> userProgressStore]]

\* startPeriodicSync without the `if (this.syncIntervalId)` early return
startPeriodicSync_NoGuard ==
    /\ timers # TimerIds
    /\ syncIntervalId' = FreeTimer
    /\ timers' = timers \cup {FreeTimer}
    /\ lastOp' = <<"startPeriodicSync", "started">>
    /\ UNCHANGED <<syncInProgress, isOnline, task, continuations>>
    /\ UNCHANGED <<apiVars, localVars>>

startPeriodicSync ==
    /\ IF syncIntervalId # 0
       THEN /\ UNCHANGED <<syncIntervalId, timers>>
            /\ lastOp' = <<"startPeriodicSync", "already">>
       ELSE /\ timers # TimerIds
            /\ syncIntervalId' = FreeTimer
            /\ timers' = timers \cup {FreeTimer}
            /\ lastOp' = <<"startPeriodicSync", "started">>
    /\ UNCHANGED <<syncInProgress, isOnline, task, continuations>>
    /\ UNCHANGED <<apiVars, localVars>>

\* stopPeriodicSync without clearInterval
stopPeriodicSync_NoClearInterval ==
    /\ IF syncIntervalId # 0
       THEN /\ UNCHANGED timers
            /\ syncIntervalId' = 0
            /\ lastOp' = <<"stopPeriodicSync", "stopped">>
       ELSE /\ UNCHANGED <<syncIntervalId, timers>>
            /\ lastOp' = <<"stopPeriodicSync", "none">>
    /\ UNCHANGED <<syncInProgress, isOnline, task, continuations>>
    /\ UNCHANGED <<apiVars, localVars>>

stopPeriodicSync ==
    /\ IF syncIntervalId # 0
       THEN /\ timers' = timers \ {syncIntervalId}
            /\ syncIntervalId' = 0
            /\ lastOp' = <<"stopPeriodicSync", "stopped">>
       ELSE /\ UNCHANGED <<syncIntervalId, timers>>
            /\ lastOp' = <<"stopPeriodicSync", "none">>
    /\ UNCHANGED <<syncInProgress, isOnline, task, continuations>>
    /\ UNCHANGED <<apiVars, localVars>>

getSyncStatus ==
    [isOnline |-> isOnline, syncInProgress |-> syncInProgress,
     periodicSyncActive |-> syncIntervalId # 0]

\* The interval timer `id` fires.
Tick(id) ==
    /\ id \in timers
    /\ MacrotaskReady
    /\ syncUserProgress("tick", syncInProgress, isOnline, FALSE)
    /\ UNCHANGED <<isOnline, syncIntervalId, timers, continuations>>
    /\ UNCHANGED <<apiVars, localVars>>

\* A caller invokes SyncManager.syncUserProgress() (syncNow).
SyncNow ==
    /\ syncUserProgress("syncNow", syncInProgress, isOnline, FALSE)
    /\ UNCHANGED <<isOnline, syncIntervalId, timers, continuations>>
    /\ UNCHANGED <<apiVars, localVars>>

setOnlineStatus(online) ==
    /\ isOnline' = online
    /\ IF online /\ ~isOnline
       THEN syncUserProgress("setOnlineStatus", syncInProgress, online, FALSE)
       ELSE /\ lastOp' = <<"setOnlineStatus", "set">>
            /\ UNCHANGED <<syncInProgress, task>>
    /\ UNCHANGED <<syncIntervalId, timers, continuations>>
    /\ UNCHANGED <<apiVars, localVars>>

\* forceSync up to its await. When syncUserProgress started a cycle, the finally
\* block runs when the cycle ends; when it returned at once, forceSync is
\* suspended on a settled promise and its finally block runs after the
\* caller's synchronous code.
forceSync ==
    /\ Len(continuations) < MaxSuspended
    /\ syncUserProgress("forceSync", FALSE, isOnline, syncInProgress)
    /\ continuations' = IF lastOp'[2] = "started" THEN continuations
                        ELSE Append(continuations, syncInProgress)
    /\ UNCHANGED <<isOnline, syncIntervalId, timers>>
    /\ UNCHANGED <<apiVars, localVars>>

\* forceSync's finally block, for a call whose syncUserProgress returned at once.
forceSyncFinally ==
    /\ continuations # <<>>
    /\ syncInProgress' = Head(continuations)
    /\ continuations' = Tail(continuations)
    /\ lastOp' = <<"forceSync", "returned", "forceSync", forceSyncPromise("resolved")>>
    /\ UNCHANGED <<isOnline, syncIntervalId, timers, task>>
    /\ UNCHANGED <<apiVars, localVars>>

\* syncUserProgress's finally block, then the caller's continuation.
Finish(t) ==
    /\ syncInProgress' = Restored(task[t].kind, task[t].previousSyncState, FALSE)
    /\ task' = [task EXCEPT ![t] = FreeTask]

\* the exhausted branch without `this.isOnline = false`
performSync_StaysOnline(t, ok) ==
    /\ task[t].pc = "upload"
    /\ IF ok
       THEN /\ Finish(t)
            /\ lastOp' = <<"performSync", "synced", task[t].kind, Promise(task[t].kind, FALSE)>>
            /\ UNCHANGED isOnline
       ELSE IF task[t].retryCount < MAX_SYNC_RETRIES
       THEN /\ task' = [task EXCEPT ![t].pc = "delay",
                                    ![t].delay = SYNC_RETRY_DELAY_MS * (task[t].retryCount + 1)]
            /\ lastOp' = <<"performSync", "retrying">>
            /\ UNCHANGED <<syncInProgress, isOnline>>
       ELSE /\ UNCHANGED isOnline
            /\ Finish(t)
            /\ lastOp' = <<"performSync", "failed", task[t].kind, Promise(task[t].kind, TRUE)>>
    /\ UNCHANGED <<syncIntervalId, timers, continuations>>

\* a successful upload taken as proof of connectivity
performSync_RestoresOnline(t, ok) ==
    /\ task[t].pc = "upload"
    /\ IF ok
       THEN /\ Finish(t)
            /\ lastOp' = <<"performSync", "synced", task[t].kind, Promise(task[t].kind, FALSE)>>
            /\ isOnline' = TRUE
       ELSE IF task[t].retryCount < MAX_SYNC_RETRIES
       THEN /\ task' = [task EXCEPT ![t].pc = "delay",
                                    ![t].delay = SYNC_RETRY_DELAY_MS * (task[t].retryCount + 1)]
            /\ lastOp' = <<"performSync", "retrying">>
            /\ UNCHANGED <<syncInProgress, isOnline>>
       ELSE /\ isOnline' = FALSE
            /\ Finish(t)
            /\ lastOp' = <<"performSync", "failed", task[t].kind, Promise(task[t].kind, TRUE)>>
    /\ UNCHANGED <<syncIntervalId, timers, continuations>>

\* performSync resumes after `await ApiClient.updateUserProgressStats(...)`,
\* which returned (ok) or threw; on the last failure the error goes through
\* syncUserProgress's catch and finally blocks to the caller.
performSync(t, ok) ==
    /\ task[t].pc = "upload"
    /\ IF ok
       THEN /\ Finish(t)
            /\ lastOp' = <<"performSync", "synced", task[t].kind, Promise(task[t].kind, FALSE)>>
            /\ UNCHANGED isOnline
       ELSE IF task[t].retryCount < MAX_SYNC_RETRIES
       THEN /\ task' = [task EXCEPT ![t].pc = "delay",
                                    ![t].delay = SYNC_RETRY_DELAY_MS * (task[t].retryCount + 1)]
            /\ lastOp' = <<"performSync", "retrying">>
            /\ UNCHANGED <<syncInProgress, isOnline>>
       ELSE /\ isOnline' = FALSE
            /\ Finish(t)
            /\ lastOp' = <<"performSync", "failed", task[t].kind, Promise(task[t].kind, TRUE)>>
    /\ UNCHANGED <<syncIntervalId, timers, continuations>>

\* ApiClient.updateUserProgressStats settles for the cycle in slot t.
UploadSettle(t, ok) ==
    /\ MacrotaskReady
    /\ performSync(t, ok)
    /\ UNCHANGED <<apiVars, localVars>>

\* the recursive call made with retryCount unchanged
DelayFire_SameRetryCount(t) ==
    /\ MacrotaskReady
    /\ task[t].pc = "delay"
    /\ task' = [task EXCEPT ![t].pc = "upload", ![t].delay = 0]
    /\ lastOp' = <<"performSync", "attempt">>
    /\ UNCHANGED <<syncInProgress, isOnline, syncIntervalId, timers, continuations>>
    /\ UNCHANGED <<apiVars, localVars>>

\* The retry delay elapses: performSync(userProgress, retryCount + 1).
DelayFire(t) ==
    /\ MacrotaskReady
    /\ task[t].pc = "delay"
    /\ task' = [task EXCEPT ![t].pc = "upload", ![t].retryCount = @ + 1, ![t].delay = 0]
    /\ lastOp' = <<"performSync", "attempt">>
    /\ UNCHANGED <<syncInProgress, isOnline, syncIntervalId, timers, continuations>>
    /\ UNCHANGED <<apiVars, localVars>>

\* ------------------------------------------------ a sync cycle through `api`

\* the store read again on every attempt
ProgressOf_RereadsStore(t) == userProgressStore

\* performSync's `userProgress` parameter: the state object syncUserProgress
\* read when the cycle started, passed on to every recursive call
ProgressOf(t) == task[t].userProgress

\* the body performSync builds for the upload
ProgressBody(userProgress) == [progress |-> userProgress]

\* performSync calls ApiClient.updateUserProgressStats: api.put of the progress.
updateUserProgressStats(t, c, token) ==
    /\ task[t].pc = "upload"
    /\ Call(c, [method |-> "put", url |-> "/api/user/progress",
                data |-> ProgressBody(ProgressOf(t))], token)

\* The application replaces the state of the progress store (zustand `set`):
\* the store holds a new state object, the old one is left as it was.
setState(next) ==
    /\ next # userProgressStore
    /\ userProgressStore' = next
    /\ UNCHANGED <<offline_queue, enqueue, drain, queueLog>>
    /\ UNCHANGED <<apiVars, syncVars>>

\* api.put settles and performSync resumes with its outcome. The counts of
\* what call slot c has sent and received are kept across the calls of a cycle.
updateUserProgressStatsSettled(t, c) ==
    /\ pc[c] \in {"resolved", "rejected"}
    /\ performSync(t, pc[c] = "resolved")
    /\ pc' = [pc EXCEPT ![c] = "idle"]
    /\ config' = [config EXCEPT ![c] = NoConfig]
    /\ chain' = [chain EXCEPT ![c] = <<>>]
    /\ error' = [error EXCEPT ![c] = NoError]
    /\ UNCHANGED <<authTokenProvider, wire, stats, received, inFlight, refreshResult>>
    /\ UNCHANGED localVars

\* ================================================================ offline queue

\* The mutations queued while offline: an endpoint and a JSON payload.
Mutations == {"mutation1", "mutation2"}
OfflineActions == {[endpoint |-> "offline.endpoint", data |-> d] : d \in Mutations}
NoAction == [endpoint |-> "none", data |-> "none"]

\* what Date.now() returns
Times == {1, 2}

\* SecureStore.getItemAsync: null when the key holds nothing, else the string
NoItem == [present |-> FALSE, text |-> <<>>]
Item(text) == [present |-> TRUE, text |-> text]

\* JSON.stringify of the array of entries: one object text per entry, the
\* properties in insertion order
JSONstringify(actions) ==
    [i \in 1..Len(actions) |->
        <<actions[i].endpoint, actions[i].data, actions[i].timestamp>>]

\* JSON.parse of such a text
JSONparse(text) ==
    [i \in 1..Len(text) |->
        [endpoint |-> text[i][1], data |-> text[i][2], timestamp |-> text[i][3]]]

FreeEnqueue == [pc |-> "free", action |-> NoAction, actions |-> <<>>]
FreeDrain == [pc |-> "free", actions |-> <<>>, i |-> 0, posted |-> <<>>]
NoQueueLog == [called |-> <<>>, overlapped |-> FALSE, drained |-> FALSE,
               posted |-> <<>>, errorLog |-> <<>>]

\* queueOfflineAction(action) up to `await SecureStore.getItemAsync`. Each
\* mutation is queued once.
queueOfflineAction(e, action) ==
    /\ enqueue[e].pc = "free"
    /\ \A o \in Enqueues : enqueue[o].pc = "free" => e <= o
    /\ \A i \in 1..Len(queueLog.called) : queueLog.called[i] # action
    /\ enqueue' = [enqueue EXCEPT ![e] = [pc |-> "getItem", action |-> action,
                                          actions |-> <<>>]]
    /\ queueLog' = [queueLog EXCEPT
            !.called = Append(@, action),
            !.overlapped = @ \/ \E o \in Enqueues : enqueue[o].pc # "free"]
    /\ UNCHANGED <<userProgressStore, offline_queue, drain>>
    /\ UNCHANGED <<apiVars, syncVars>>

\* the entry put in front of the array (unshift for push)
queueGetItemResolved_Prepends(e, now) ==
    /\ enqueue[e].pc = "getItem"
    /\ LET queue == offline_queue
           actions == IF queue.present THEN JSONparse(queue.text) ELSE <<>> IN
       enqueue' = [enqueue EXCEPT
            ![e].pc = "setItem",
            ![e].actions = <<[endpoint |-> enqueue[e].action.endpoint,
                              data |-> enqueue[e].action.data, timestamp |-> now]>>
                           \o actions]
    /\ UNCHANGED <<userProgressStore, offline_queue, drain, queueLog>>
    /\ UNCHANGED <<apiVars, syncVars>>

\* getItemAsync resolves: parse, push the entry with its timestamp, and call
\* setItemAsync with the new text.
queueGetItemResolved(e, now) ==
    /\ enqueue[e].pc = "getItem"
    /\ LET queue == offline_queue
           actions == IF queue.present THEN JSONparse(queue.text) ELSE <<>> IN
       enqueue' = [enqueue EXCEPT
            ![e].pc = "setItem",
            ![e].actions = Append(actions,
                [endpoint |-> enqueue[e].action.endpoint,
                 data |-> enqueue[e].action.data, timestamp |-> now])]
    /\ UNCHANGED <<userProgressStore, offline_queue, drain, queueLog>>
    /\ UNCHANGED <<apiVars, syncVars>>

\* setItemAsync writes the text and resolves; queueOfflineAction returns.
queueSetItemResolved(e) ==
    /\ enqueue[e].pc = "setItem"
    /\ offline_queue' = Item(JSONstringify(enqueue[e].actions))
    /\ enqueue' = [enqueue EXCEPT ![e] = FreeEnqueue]
    /\ UNCHANGED <<userProgressStore, drain, queueLog>>
    /\ UNCHANGED <<apiVars, syncVars>>

\* processOfflineQueue() up to `await SecureStore.getItemAsync`.
processOfflineQueue(d) ==
    /\ drain[d].pc = "free"
    /\ \A o \in Drains : drain[o].pc = "free" => d <= o
    /\ drain' = [drain EXCEPT ![d].pc = "getItem"]
    /\ queueLog' = [queueLog EXCEPT !.drained = TRUE]
    /\ UNCHANGED <<userProgressStore, offline_queue, enqueue>>
    /\ UNCHANGED <<apiVars, syncVars>>

\* The `for ... of` loop reaches position i: api.post for the entry there, or,
\* past the last entry, deleteItemAsync.
forOf(d, actions, i, log) ==
    IF i <= Len(actions)
    THEN /\ drain' = [drain EXCEPT ![d] = [pc |-> "post", actions |-> actions, i |-> i,
                                          posted |-> Append(drain[d].posted, actions[i])]]
         /\ queueLog' = [log EXCEPT !.posted = Append(@, actions[i])]
    ELSE /\ drain' = [drain EXCEPT ![d] = [pc |-> "deleteItem", actions |-> actions,
                                          i |-> i, posted |-> drain[d].posted]]
         /\ queueLog' = log

\* getItemAsync resolves: return when the key holds nothing, else parse and
\* enter the loop.
drainGetItemResolved(d) ==
    /\ drain[d].pc = "getItem"
    /\ LET queue == offline_queue IN
       IF ~queue.present
       THEN /\ drain' = [drain EXCEPT ![d] = FreeDrain]
            /\ UNCHANGED queueLog
       ELSE forOf(d, JSONparse(queue.text), 1, queueLog)
    /\ UNCHANGED <<userProgressStore, offline_queue, enqueue>>
    /\ UNCHANGED <<apiVars, syncVars>>

\* the loop body without try/catch: a failed post ends the drain
processOfflineQueueResumed_Aborts(d, ok) ==
    /\ drain[d].pc = "post"
    /\ IF ok
       THEN forOf(d, drain[d].actions, drain[d].i + 1, queueLog)
       ELSE /\ drain' = [drain EXCEPT ![d] = FreeDrain]
            /\ UNCHANGED queueLog
    /\ UNCHANGED <<userProgressStore, offline_queue, enqueue>>

\* `await api.post(...)` returned (ok) or threw: the catch block logs the
\* error, and the loop goes on.
processOfflineQueueResumed(d, ok) ==
    /\ drain[d].pc = "post"
    /\ LET action == drain[d].actions[drain[d].i]
           logged == [queueLog EXCEPT !.errorLog =
                        Append(@, [operation |-> "processOfflineQueue",
                                   action |-> action])] IN
       forOf(d, drain[d].actions, drain[d].i + 1, IF ok THEN queueLog ELSE logged)
    /\ UNCHANGED <<userProgressStore, offline_queue, enqueue>>

\* api.post settles for the drain in slot d.
PostSettle(d, ok) ==
    /\ processOfflineQueueResumed(d, ok)
    /\ UNCHANGED <<apiVars, syncVars>>

\* the queue cleared by writing an empty list under the key
deleteItemResolved_WritesEmptyList(d) ==
    /\ drain[d].pc = "deleteItem"
    /\ offline_queue' = Item(JSONstringify(<<>>))
    /\ drain' = [drain EXCEPT ![d] = FreeDrain]
    /\ UNCHANGED <<userProgressStore, enqueue, queueLog>>
    /\ UNCHANGED <<apiVars, syncVars>>

\* deleteItemAsync removes the key and resolves; processOfflineQueue returns.
deleteItemResolved(d) ==
    /\ drain[d].pc = "deleteItem"
    /\ offline_queue' = NoItem
    /\ drain' = [drain EXCEPT ![d] = FreeDrain]
    /\ UNCHANGED <<userProgressStore, enqueue, queueLog>>
    /\ UNCHANGED <<apiVars, syncVars>>

\* ------------------------------------------------ a drain through `api`

\* The call slot that carries the posts of the drain in slot d.
CallOf(d) == d

\* the loop going on without waiting for the post it issued
Awaited_NotAwaited(c) == pc[c] # "idle"

\* `await api.post(...)`: the promise of the call has settled
Awaited(c) == pc[c] \in {"resolved", "rejected"}

\* The loop body calls api.post(action.endpoint, action.data).
post(d, c, token) ==
    /\ drain[d].pc = "post"
    /\ c = CallOf(d)
    /\ LET action == drain[d].actions[drain[d].i] IN
       Call(c, [method |-> "post", url |-> action.endpoint, data |-> action.data], token)

\* api.post settles and the loop resumes with its outcome. The counts of what
\* call slot c has sent and received are kept across the posts of a drain.
postSettled(d, c) ==
    /\ c = CallOf(d)
    /\ Awaited(c)
    /\ processOfflineQueueResumed(d, pc[c] = "resolved")
    /\ pc' = [pc EXCEPT ![c] = "idle"]
    /\ config' = [config EXCEPT ![c] = NoConfig]
    /\ chain' = [chain EXCEPT ![c] = <<>>]
    /\ error' = [error EXCEPT ![c] = NoError]
    /\ UNCHANGED <<authTokenProvider, wire, stats, received, inFlight, refreshResult>>
    /\ UNCHANGED syncVars

\* SyncManager.hasPendingOfflineActions
hasPendingOfflineActions == offline_queue.present

\* ================================================================ specification

InitApi ==
    /\ authTokenProvider = FALSE
    /\ pc = [c \in Calls |-> "idle"]
    /\ config = [c \in Calls |-> NoConfig]
    /\ chain = [c \in Calls |-> <<>>]
    /\ error = [c \in Calls |-> NoError]
    /\ wire = [c \in Calls |-> NoWire]
    /\ stats = [c \in Calls |-> NoStats]
    /\ received = [c \in Calls |-> NoneReceived]
    /\ inFlight = 0
    /\ refreshResult = <<>>

InitSync ==
    /\ syncInProgress = FALSE
    /\ isOnline = TRUE
    /\ syncIntervalId = 0
    /\ timers = {}
    /\ task = [t \in Tasks |-> FreeTask]
    /\ continuations = <<>>
    /\ lastOp = <<"init", "none">>

InitLocal ==
    /\ userProgressStore = 1
    /\ offline_queue = NoItem
    /\ enqueue = [e \in Enqueues |-> FreeEnqueue]
    /\ drain = [d \in Drains |-> FreeDrain]
    /\ queueLog = NoQueueLog

Init == InitApi /\ InitSync /\ InitLocal

\* One call, every transport outcome, every token source outcome.
Solo == {c \in Calls : c = 1}

NextApi ==
    \/ setTokenProvider
    \/ \E c \in Solo, r \in Requests, token \in TokenResults : Call(c, r, token)
    \/ \E c \in Solo, e \in Responses : Respond(c, e)
    \/ \E c \in Solo, token \in TokenResults : BackoffFire(c, token)
    \/ \E r \in TokenResults : RefreshSettle(r)
    \/ \E c \in Solo, token \in TokenResults : AfterRefresh(c, token)
    \/ \E c \in Solo : SignOutDone(c)
    \/ \E c \in Solo : Unwind(c)

SpecApi == Init /\ [][NextApi]_vars

\* The transport settles every transmission (each carries a timeout), timers
\* fire and settled promises resume.
FairApi ==
    \A c \in Solo :
        /\ WF_vars(\E e \in Responses : Respond(c, e))
        /\ WF_vars(\E token \in TokenResults : BackoffFire(c, token))
        /\ WF_vars(\E r \in TokenResults : RefreshSettle(r))
        /\ WF_vars(\E token \in TokenResults : AfterRefresh(c, token))
        /\ WF_vars(SignOutDone(c))
        /\ WF_vars(Unwind(c))

FairSpecApi == SpecApi /\ FairApi

\* NCalls concurrent progress uploads against a transport that answers 2xx or
\* 401, with the token cache as the token source, holding one token when the
\* calls are issued and any token afterwards, and refreshes that yield a token,
\* yield none, or throw.
AuthResponses == {e \in Responses : e.status \in {200, 401}}
ProgressUpload == {r \in Requests : r.method = "put"}
CachedToken == {token \in Tokens : token = 1}

NextRefresh ==
    \/ \E c \in Calls, r \in ProgressUpload, token \in CachedToken : Call(c, r, token)
    \/ \E c \in Calls, e \in AuthResponses : Respond(c, e)
    \/ \E r \in TokenResults : RefreshSettle(r)
    \/ \E c \in Calls, token \in Tokens : AfterRefresh(c, token)
    \/ \E c \in Calls : SignOutDone(c)
    \/ \E c \in Calls : Unwind(c)

SpecRefresh == Init /\ [][NextRefresh]_vars

NextSync ==
    \/ startPeriodicSync
    \/ stopPeriodicSync
    \/ \E id \in TimerIds : Tick(id)
    \/ SyncNow
    \/ \E online \in BOOLEAN : setOnlineStatus(online)
    \/ forceSync
    \/ forceSyncFinally
    \/ \E t \in Tasks, ok \in BOOLEAN : UploadSettle(t, ok)
    \/ \E t \in Tasks : DelayFire(t)

SpecSync == Init /\ [][NextSync]_vars

\* The event loop runs every callback that is ready: an upload settles (the
\* request carries a timeout), a retry delay elapses. A synchronous run of
\* caller code ends, and the suspended forceSync calls then all resume.
FairSync ==
    /\ \A t \in Tasks :
        /\ SF_vars(\E ok \in BOOLEAN : UploadSettle(t, ok))
        /\ SF_vars(DelayFire(t))
    /\ WF_vars(forceSyncFinally)
    /\ SF_vars(forceSyncFinally /\ continuations' = <<>>)

\* Periodic sync with its controls and the online signal: cycles begun by
\* timer callbacks, syncNow and setOnlineStatus only.
NextPeriodic ==
    \/ startPeriodicSync
    \/ stopPeriodicSync
    \/ \E id \in TimerIds : Tick(id)
    \/ SyncNow
    \/ \E online \in BOOLEAN : setOnlineStatus(online)
    \/ \E t \in Tasks, ok \in BOOLEAN : UploadSettle(t, ok)
    \/ \E t \in Tasks : DelayFire(t)

SpecPeriodic == Init /\ [][NextPeriodic]_vars

FairSpecPeriodic == SpecPeriodic /\ FairSync

\* One sync cycle on a client that has sent nothing yet, its uploads going
\* through `api` to a backend that answers 200 or 500; the token source holds
\* a token.
BackendResponses == {e \in Responses : e.status \in {200, 500}}
FreshClient == \A c \in Solo : stats[c].nTx = 0

NextUpload ==
    \/ FreshClient /\ SyncNow
    \/ \E next \in ProgressStates : setState(next)
    \/ \E t \in Tasks, c \in Solo, token \in Tokens : updateUserProgressStats(t, c, token)
    \/ \E c \in Solo, e \in BackendResponses : Respond(c, e)
    \/ \E c \in Solo, token \in Tokens : BackoffFire(c, token)
    \/ \E c \in Solo : Unwind(c)
    \/ \E t \in Tasks, c \in Solo : updateUserProgressStatsSettled(t, c)
    \/ \E t \in Tasks : DelayFire(t)

SpecUpload == Init /\ [][NextUpload]_vars

\* Drains that run one after the other.
OneDrain == {d \in Drains : d = 1}

\* The offline queue: enqueues, overlapping or not, interleaved in any way
\* with drains that run one after the other, every post settling either way.
NextQueue ==
    \/ \E e \in Enqueues, action \in OfflineActions : queueOfflineAction(e, action)
    \/ \E e \in Enqueues, now \in Times : queueGetItemResolved(e, now)
    \/ \E e \in Enqueues : queueSetItemResolved(e)
    \/ \E d \in OneDrain : processOfflineQueue(d)
    \/ \E d \in OneDrain : drainGetItemResolved(d)
    \/ \E d \in OneDrain, ok \in BOOLEAN : PostSettle(d, ok)
    \/ \E d \in OneDrain : deleteItemResolved(d)

SpecQueue == Init /\ [][NextQueue]_vars

\* The offline queue with drains that may overlap one another.
NextOverlap ==
    \/ \E e \in Enqueues, action \in OfflineActions : queueOfflineAction(e, action)
    \/ \E e \in Enqueues, now \in Times : queueGetItemResolved(e, now)
    \/ \E e \in Enqueues : queueSetItemResolved(e)
    \/ \E d \in Drains : processOfflineQueue(d)
    \/ \E d \in Drains : drainGetItemResolved(d)
    \/ \E d \in Drains, ok \in BOOLEAN : PostSettle(d, ok)
    \/ \E d \in Drains : deleteItemResolved(d)

SpecOverlap == Init /\ [][NextOverlap]_vars

\* The offline queue with the posts of a drain going through `api` to a
\* backend that answers 200 or 500; the token source holds a token. Drains
\* run one after the other, enqueues at any time.
NextDrain ==
    \/ \E e \in Enqueues, action \in OfflineActions : queueOfflineAction(e, action)
    \/ \E e \in Enqueues, now \in Times : queueGetItemResolved(e, now)
    \/ \E e \in Enqueues : queueSetItemResolved(e)
    \/ \E d \in OneDrain : processOfflineQueue(d)
    \/ \E d \in OneDrain : drainGetItemResolved(d)
    \/ \E d \in OneDrain, c \in Calls, token \in CachedToken : post(d, c, token)
    \/ \E c \in Calls, e \in BackendResponses : Respond(c, e)
    \/ \E c \in Calls, token \in CachedToken : BackoffFire(c, token)
    \/ \E c \in Calls : Unwind(c)
    \/ \E d \in OneDrain, c \in Calls : postSettled(d, c)
    \/ \E d \in OneDrain : deleteItemResolved(d)

SpecDrain == Init /\ [][NextDrain]_vars

\* The offline queue together with the online signal and the cycles it starts.
NextReconnect ==
    \/ NextQueue
    \/ \E online \in BOOLEAN : setOnlineStatus(online)
    \/ \E t \in Tasks, ok \in BOOLEAN : UploadSettle(t, ok)
    \/ \E t \in Tasks : DelayFire(t)

SpecReconnect == Init /\ [][NextReconnect]_vars

\* Storage operations complete and posts settle; what is started by a call
\* from outside (an enqueue, a drain, the online signal) is not forced.
FairQueue ==
    /\ \A e \in Enqueues :
        /\ WF_vars(\E now \in Times : queueGetItemResolved(e, now))
        /\ WF_vars(queueSetItemResolved(e))
    /\ \A d \in Drains :
        /\ WF_vars(drainGetItemResolved(d))
        /\ WF_vars(\E ok \in BOOLEAN : PostSettle(d, ok))
        /\ WF_vars(deleteItemResolved(d))

FairSpecReconnect == SpecReconnect /\ FairQueue /\ FairSync

\* The SyncManager's periodic sync, online signal and offline queue together,
\* the queue used by one enqueue and one drain at a time.
OneEnqueue == {e \in Enqueues : e = 1}

NextManager ==
    \/ NextPeriodic
    \/ \E e \in OneEnqueue, action \in OfflineActions : queueOfflineAction(e, action)
    \/ \E e \in OneEnqueue, now \in Times : queueGetItemResolved(e, now)
    \/ \E e \in OneEnqueue : queueSetItemResolved(e)
    \/ \E d \in OneDrain : processOfflineQueue(d)
    \/ \E d \in OneDrain : drainGetItemResolved(d)
    \/ \E d \in OneDrain, ok \in BOOLEAN : PostSettle(d, ok)
    \/ \E d \in OneDrain : deleteItemResolved(d)

SpecManager == Init /\ [][NextManager]_vars

\* ================================================================ properties

Settled(c) == pc[c] \in {"resolved", "rejected"}
Surfacing(c) == pc[c] \in {"rejecting", "rejected"}

\* What the refresh attempt awaited by call c has settled to.
RefreshOutcome(c) ==
    IF stats[c].attempt = 0 THEN Pending ELSE refreshResult[stats[c].attempt]

LiveRefreshes == {i \in DOMAIN refreshResult : refreshResult[i] = Pending}

C2_RetryFlagOneShot ==
    \A c \in Calls :
        /\ stats[c].refreshCalls <= 1
        /\ stats[c].resends <= 1
        /\ received[c].n401 <= 2
        /\ stats[c].nTx > 0
                => stats[c].nTx + (IF pc[c] = "backoff" THEN 1 ELSE 0)
                        = 1 + config[c].retryCount + stats[c].resends
        /\ received[c].n401 = 2
                => /\ Surfacing(c)
                   /\ error[c].status = Unauthorized
                   /\ stats[c].refreshCalls = 1
                   /\ stats[c].resends = 1

C2_Witness ==
    \E c \in Calls :
        /\ pc[c] = "rejected"
        /\ received[c].n401 = 2
        /\ stats[c].resends = 1
        /\ stats[c].refreshCalls = 1
        /\ error[c].status = Unauthorized

\* C3: after a first 401 whose refresh throws or yields no token, the request
\* is not resent, the sign-out trigger has been invoked, and the error on its
\* way to the caller is the original 401.
C3_RefreshFailureSignsOut ==
    \A c \in Calls :
        (pc[c] # "refreshing" /\ RefreshOutcome(c) \in {NullToken, Thrown})
            => /\ stats[c].resends = 0
               /\ stats[c].signOuts = 1
               /\ pc[c] \in {"signingOut", "rejecting", "rejected"}
               /\ error[c].status = Unauthorized
               /\ received[c].last = Unauthorized
               /\ stats[c].nTx = received[c].n401 + received[c].nErr

C3_Witness ==
    \E c \in Calls :
        /\ pc[c] = "rejected"
        /\ RefreshOutcome(c) = Thrown
        /\ stats[c].signOuts = 1
        /\ stats[c].resends = 0
        /\ error[c].status = Unauthorized

\* C4: a call answered 401 and then 2xx, with nothing else, ends with one
\* refresh call, two transmissions, a successful response and no sign-out.
C4_RefreshThenSuccess ==
    \A c \in Calls :
        (pc[c] = "resolved" /\ received[c].n401 = 1 /\ received[c].nErr = 0)
            => /\ stats[c].refreshCalls = 1
               /\ Len(refreshResult) = 1
               /\ stats[c].nTx = 2
               /\ stats[c].resends = 1
               /\ stats[c].signOuts = 0
               /\ error[c] = NoError

C4_Witness ==
    \E c \in Calls :
        /\ pc[c] = "resolved"
        /\ received[c].n401 = 1
        /\ received[c].nErr = 0
        /\ stats[c].nTx = 2
        /\ RefreshOutcome(c) \in Tokens

\* C5: the bearer token on the wire of a resend after a successful refresh is
\* the token that refresh returned, whatever the token source yields when the
\* request interceptor runs again.
C5_ResendCarriesRefreshedToken ==
    \A c \in Calls :
        stats[c].resends = 1 => wire[c].Authorization = RefreshOutcome(c)

OtherClientError(status) ==
    status >= 400 /\ status < 500 /\ status \notin {Unauthorized, TooManyRequests}

\* C6: a 4xx answer other than 401 and 429 is surfaced at once: nothing is
\* transmitted after it, and when it is the first answer the request was
\* transmitted exactly once, with no backoff retry and no refresh.
C6_ClientErrorNotRetried ==
    \A c \in Calls :
        OtherClientError(received[c].last)
            => /\ Surfacing(c)
               /\ error[c].status = received[c].last
               /\ stats[c].nTx = received[c].n401 + received[c].nErr
               /\ (received[c].n401 = 0 /\ received[c].nErr = 1)
                    => /\ stats[c].nTx = 1
                       /\ config[c].retryCount = 0
                       /\ stats[c].refreshCalls = 0

C6_Witness ==
    \E c \in Calls :
        /\ pc[c] = "rejected"
        /\ received[c].last = 403
        /\ received[c].nErr = 1
        /\ received[c].n401 = 0
        /\ stats[c].nTx = 1

\* Every answer so far was a network error, a 5xx or 429.
KeepsFailing(c) ==
    /\ received[c].n401 = 0
    /\ received[c].nErr > 0
    /\ \/ received[c].last >= ServerErrorFloor
       \/ received[c].last = TooManyRequests
       \/ received[c].last = NoResponse /\ received[c].code = "ERR_NETWORK"

C7_Bounded ==
    \A c \in Calls :
        /\ config[c].retryCount <= RETRIES
        /\ KeepsFailing(c)
            => /\ stats[c].nTx <= RETRIES + 1
               /\ received[c].nErr <= RETRIES + 1
               /\ received[c].nErr <= RETRIES => pc[c] \in {"backoff", "inflight"}
               /\ received[c].nErr = RETRIES + 1
                    => /\ Surfacing(c)
                       /\ stats[c].nTx = RETRIES + 1
                       /\ error[c].status = received[c].last
                       /\ error[c].code = received[c].code

\* C7: a request that keeps failing with a network error, a 5xx or 429 is
\* retried at most RETRIES times (RETRIES + 1 transmissions), then its error is
\* surfaced; every call issued settles.
C7_RetriesBoundedAndTerminate ==
    /\ []C7_Bounded
    /\ \A c \in Solo : (pc[c] # "idle") ~> Settled(c)

C7_Witness ==
    \E c \in Calls :
        /\ pc[c] = "rejected"
        /\ KeepsFailing(c)
        /\ stats[c].nTx = RETRIES + 1
        /\ received[c].last = TooManyRequests

\* C8 as stated: whenever the token source yields no token, the request goes
\* out without an Authorization header.
C8_NoTokenNoHeader ==
    \A c \in Calls :
        (stats[c].nTx > 0 /\ wire[c].token \notin Tokens)
            => wire[c].Authorization = NoHeader

\* C8 amended: whenever the token source yields no token, the request still
\* goes out and the interceptor adds no header: the first transmission of a
\* call carries none, a backoff retry or an auth resend carries the header its
\* descriptor already had.
C8_NoTokenKeepsDescriptorHeader ==
    \A c \in Calls :
        /\ (stats[c].nTx > 0 /\ wire[c].token \notin Tokens)
                => /\ wire[c].Authorization = wire[c].carried
                   /\ config[c].Authorization = wire[c].carried
                   /\ stats[c].nTx = 1 => wire[c].Authorization = NoHeader
        /\ pc[c] = "backoff"
                => \A token \in {NullToken, Thrown} : ENABLED BackoffFire(c, token)

C8_Witness ==
    \E c \in Calls :
        /\ stats[c].nTx > 1
        /\ wire[c].token = Thrown
        /\ wire[c].carried \in Tokens
        /\ wire[c].Authorization = wire[c].carried

\* C9: every transmission of a call, backoff retries and the auth resend
\* included, carries the method, path and body the caller passed; the
\* descriptor keeps them too.
C9_OperationPreserved ==
    \A c \in Calls :
        stats[c].nTx > 0
            => /\ wire[c].method = stats[c].request.method
               /\ wire[c].url = stats[c].request.url
               /\ wire[c].data = stats[c].request.data
               /\ config[c].method = stats[c].request.method
               /\ config[c].url = stats[c].request.url
               /\ config[c].data = stats[c].request.data

C9_Witness ==
    \E c \in Calls :
        /\ stats[c].nTx = RETRIES + 2
        /\ stats[c].resends = 1
        /\ config[c].retryCount = RETRIES
        /\ wire[c].data = "action"
        /\ wire[c].method = "post"

Triggers == {"tick", "syncNow", "setOnlineStatus", "forceSync"}

\* C10: syncNow or a tick made while syncInProgress is set changes nothing
\* (no cycle, no upload), and nothing remembers it: a cycle begins only in the
\* step of a trigger that passed both guards, never when a cycle finishes.
C10_DroppedNotQueued ==
    [][ /\ (lastOp'[1] \in {"syncNow", "tick"} /\ syncInProgress)
            => /\ UNCHANGED <<syncInProgress, isOnline, syncIntervalId, timers, task,
                               continuations>>
               /\ lastOp'[2] = "skip:inProgress"
        /\ \A t \in Tasks :
            (task[t].pc = "free" /\ task'[t].pc # "free")
                => /\ lastOp'[1] \in Triggers
                   /\ lastOp'[2] = "started"
                   /\ task'[t].pc = "upload" ]_vars

C10_Witness ==
    /\ lastOp \in {<<"syncNow", "skip:inProgress">>, <<"tick", "skip:inProgress">>}
    /\ syncInProgress
    /\ \E t \in Tasks : task[t].pc = "upload"

\* ---------------------------------------------------------------- sync cycles

\* The step is the call of `op` (a trigger reaching syncUserProgress).
Calling(op) == lastOp'[1] = op /\ Len(lastOp') = 2

\* The step makes the cycle in slot t begin / end.
Begins(t) == task[t].pc = "free" /\ task'[t].pc # "free"
Ends(t) == task[t].pc # "free" /\ task'[t].pc = "free"
\* The step issues an upload for the cycle in slot t.
Uploads(t) == task[t].pc # "upload" /\ task'[t].pc = "upload"
\* The step is the one in which a cycle gives up.
Exhausts == lastOp'[1] = "performSync" /\ lastOp'[2] = "failed" /\ \E t \in Tasks : Ends(t)

\* C11: the step in which a cycle exhausts its retries leaves isOnline false;
\* isOnline goes from false to true only in a setOnlineStatus(true) call; and a
\* periodic tick while isOnline is false starts no cycle and issues no upload.
C11_OfflineAfterExhaustion ==
    [][ /\ Exhausts => ~isOnline'
        /\ (~isOnline /\ isOnline') => lastOp'[1] = "setOnlineStatus"
        /\ (Calling("tick") /\ ~isOnline)
            => /\ UNCHANGED <<task, isOnline, syncInProgress>>
               /\ lastOp'[2] \in {"skip:offline", "skip:inProgress"} ]_vars

C11_Witness ==
    /\ lastOp = <<"performSync", "failed", "syncUserProgress", "resolved">>
    /\ ~isOnline
    /\ Running = {}
    /\ \E id \in timers : ENABLED Tick(id)

\* C12: a cycle makes at most 3 calls of updateUserProgressStats, the wait
\* before the next attempt is SYNC_RETRY_DELAY_MS times the number of attempts
\* made, and a cycle gives up (isOnline := false) when its 3rd attempt fails.
C12_ThreeAttemptsLinearBackoff ==
    /\ [](\A t \in Running :
            /\ task[t].retryCount + 1 <= 3
            /\ task[t].pc = "delay"
                => task[t].delay = SYNC_RETRY_DELAY_MS * (task[t].retryCount + 1))
    /\ [][ \A t \in Tasks :
            (Exhausts /\ Ends(t)) <=>
                (task[t].pc = "upload" /\ task[t].retryCount + 1 = 3
                    /\ task'[t] # task[t]
                    /\ lastOp'[1] = "performSync" /\ lastOp'[2] # "synced") ]_vars

\* C14: whenever a call of syncUserProgress (a tick, syncNow, the online
\* signal) or of forceSync completes, its promise resolves, also when every
\* upload attempt failed; the failure shows as isOnline = false.
C14_FailuresSwallowed ==
    Len(lastOp) = 4
        => /\ lastOp[4] = "resolved"
           /\ lastOp[2] = "failed" => ~getSyncStatus.isOnline

C14_Witness ==
    /\ lastOp = <<"performSync", "failed", "forceSync", "resolved">>
    /\ ~getSyncStatus.isOnline

C16_OnlineSignalStartsCycle ==
    [][ (Calling("setOnlineStatus") /\ ~isOnline /\ isOnline')
            => \E t \in Tasks : Begins(t) /\ Uploads(t) ]_vars

Guarded == {t \in Running : task[t].kind = "syncUserProgress"}

\* C17: at most one cycle begun by a tick, syncNow or the online signal is in
\* progress at any time.
C17_GuardedCyclesExclusive == Cardinality(Guarded) <= 1

\* C18: forceSync called while online begins its own cycle also when
\* syncInProgress is set, remembering the flag; when that cycle ends, and when
\* a forceSync that began no cycle resumes, syncInProgress is the remembered value.
C18_ForceSyncBypassAndRestore ==
    [][ /\ (Calling("forceSync") /\ isOnline)
            => /\ lastOp'[2] = "started"
               /\ \E t \in Tasks :
                    /\ Begins(t)
                    /\ Uploads(t)
                    /\ task'[t].kind = "forceSync"
                    /\ task'[t].previousSyncState = syncInProgress
        /\ (Calling("forceSync") /\ ~isOnline)
            => continuations' = Append(continuations, syncInProgress)
        /\ \A t \in Tasks :
            (Ends(t) /\ task[t].kind = "forceSync")
                => syncInProgress' = task[t].previousSyncState
        /\ (lastOp'[1] = "forceSync" /\ Len(lastOp') = 4 /\ continuations' # continuations)
            => syncInProgress' = Head(continuations) ]_vars

C18_Witness ==
    /\ lastOp = <<"performSync", "synced", "forceSync", "resolved">>
    /\ syncInProgress
    /\ Guarded # {}

\* C19: a startPeriodicSync call made while a timer exists changes nothing; at
\* most one interval timer exists; periodicSyncActive is true exactly while a
\* timer exists, and the timer that exists is the one syncIntervalId names.
C19_StartIdempotentOneTimer ==
    /\ [](/\ Cardinality(timers) <= 1
          /\ getSyncStatus.periodicSyncActive <=> timers # {}
          /\ timers \subseteq {syncIntervalId})
    /\ [][ (lastOp'[1] = "startPeriodicSync" /\ timers # {})
            => /\ UNCHANGED <<syncInProgress, isOnline, syncIntervalId, timers, task,
                               continuations>>
               /\ lastOp'[2] = "already" ]_vars

C19_Witness ==
    /\ lastOp = <<"startPeriodicSync", "already">>
    /\ Cardinality(timers) = 1
    /\ getSyncStatus.periodicSyncActive

\* C20: a tick runs only while a timer exists; stopPeriodicSync clears the
\* timer and touches no cycle; a timer reappears only by startPeriodicSync;
\* every cycle in progress, stopped timer or not, reaches its end.
C20_StopPreventsTicksOnly ==
    /\ [][ /\ Calling("tick") => timers # {}
           /\ lastOp'[1] = "stopPeriodicSync"
                => /\ timers' = {}
                   /\ syncIntervalId' = 0
                   /\ UNCHANGED <<task, syncInProgress, isOnline, continuations>>
           /\ (timers = {} /\ timers' # {}) => lastOp'[1] = "startPeriodicSync" ]_vars
    /\ \A t \in Tasks : (task[t].pc # "free") ~> (task[t].pc = "free")

C20_Witness ==
    /\ lastOp = <<"stopPeriodicSync", "stopped">>
    /\ timers = {}
    /\ \E t \in Tasks : task[t].kind = "syncUserProgress" /\ task[t].pc = "delay"

Increasing(delays) ==
    \A i \in 1..(Len(delays) - 1) : delays[i + 1] > WithJitter(delays[i])

\* C13: in a cycle started by syncNow whose upload is answered 500, 500 and
\* then 200, the request has been transmitted exactly 3 times, with an
\* increasing delay before each retransmission, the call has resolved and the
\* cycle completes successfully; isOnline is true at every state of a cycle.
C13_TwoFailuresThenSuccess ==
    /\ Running # {} => isOnline
    /\ \A c \in Solo :
        (received[c].nErr = 2 /\ received[c].last = 200)
            => /\ stats[c].nTx = 3
               /\ Len(stats[c].delays) = 2
               /\ Increasing(stats[c].delays)
               /\ isOnline
               /\ \/ pc[c] = "resolved" /\ Running # {}
                  \/ /\ pc[c] = "idle"
                     /\ Running = {}
                     /\ ~syncInProgress
                     /\ lastOp = <<"performSync", "synced", "syncUserProgress", "resolved">>

C13_Witness ==
    /\ lastOp = <<"performSync", "synced", "syncUserProgress", "resolved">>
    /\ \A c \in Solo :
        /\ received[c].nErr = 2
        /\ received[c].last = 200
        /\ stats[c].nTx = 3
        /\ stats[c].delays = <<200, 400>>
    /\ isOnline

\* C28: whenever a call's 401 is on its way to the caller after its one
\* refresh-and-retry failed (the refresh threw, returned no token, or the
\* resent request was answered 401 again), the sign-out trigger has been
\* invoked for it.
C28_Final401SignsOut ==
    \A c \in Calls :
        (Surfacing(c) /\ error[c].status = Unauthorized /\ stats[c].refreshCalls = 1)
            => stats[c].signOuts >= 1

\* C29: every run of the request interceptor takes the token from the
\* registered provider when one is set and from the token cache only when none
\* is set; a provider stays registered, so no transmission made after
\* setTokenProvider reads the cache.
C29_ProviderBeforeCache ==
    [][/\ authTokenProvider => authTokenProvider'
       /\ \A c \in Calls :
            stats'[c].nTx > stats[c].nTx
                => /\ authTokenProvider => wire'[c].source = "provider"
                   /\ ~authTokenProvider => wire'[c].source = "cache"]_vars

C29_Witness ==
    \E c \in Calls :
        /\ authTokenProvider
        /\ stats[c].nTx >= 2
        /\ wire[c].source = "provider"
        /\ wire[c].token \in Tokens

\* C27: a refresh attempt that settles, with a token, with null or by
\* throwing, clears the in-flight marker; a 401 handler that calls for a
\* refresh never waits on a settled attempt: with no attempt in flight it
\* starts a new one, whatever the earlier attempts settled to.
C27_SettleClearsMarker ==
    [][/\ (inFlight # 0 /\ refreshResult'[inFlight] # Pending) => inFlight' = 0
       /\ \A c \in Calls :
            stats'[c].refreshCalls > stats[c].refreshCalls
                => /\ pc'[c] = "refreshing"
                   /\ refreshResult'[stats'[c].attempt] = Pending
                   /\ inFlight' = stats'[c].attempt
                   /\ inFlight = 0
                        => /\ Len(refreshResult') = Len(refreshResult) + 1
                           /\ stats'[c].attempt = Len(refreshResult')]_vars

C27_Witness ==
    \E c \in Calls :
        /\ Len(refreshResult) = 2
        /\ refreshResult[1] = Thrown
        /\ stats[c].attempt = 2
        /\ refreshResult[2] \in Tokens
        /\ pc[c] = "resolved"

\* C30: a cycle reads the progress store once, when it starts; the state
\* object it read stays the cycle's snapshot until the cycle ends, and every
\* transmission of every upload attempt of the cycle carries the body built
\* from that snapshot, whatever the store holds by then.
C30_OneSnapshotPerCycle ==
    [][\A t \in Tasks :
        /\ Begins(t) => task'[t].userProgress = userProgressStore
        /\ (task[t].pc # "free" /\ task'[t].pc # "free")
                => task'[t].userProgress = task[t].userProgress
        /\ \A c \in Solo :
              (task[t].pc = "upload" /\ stats'[c].nTx > stats[c].nTx)
                => /\ wire'[c].data = ProgressBody(task[t].userProgress)
                   /\ stats'[c].request.data = ProgressBody(task[t].userProgress)]_vars

C30_Witness ==
    \E t \in Tasks, c \in Solo :
        /\ task[t].pc = "upload"
        /\ task[t].retryCount >= 1
        /\ userProgressStore # task[t].userProgress
        /\ pc[c] = "inflight"
        /\ stats[c].nTx > RETRIES + 1
        /\ wire[c].data = ProgressBody(task[t].userProgress)

\* The entries the persisted queue holds.
Persisted == IF offline_queue.present THEN JSONparse(offline_queue.text) ELSE <<>>
EnqueuesDone == \A e \in Enqueues : enqueue[e].pc = "free"

\* C22: after enqueue calls each of which completed before the next started,
\* with no drain started, the persisted queue holds exactly the entries of
\* those calls in call order, each with the endpoint and payload of its call
\* and a timestamp; with no call made the key holds nothing.
C22_SequentialEnqueuesAppend ==
    (EnqueuesDone /\ ~queueLog.overlapped /\ ~queueLog.drained)
        => /\ offline_queue.present <=> queueLog.called # <<>>
           /\ Len(Persisted) = Len(queueLog.called)
           /\ \A i \in 1..Len(Persisted) :
                /\ Persisted[i].endpoint = queueLog.called[i].endpoint
                /\ Persisted[i].data = queueLog.called[i].data
                /\ Persisted[i].timestamp \in Times

C22_Witness ==
    /\ EnqueuesDone
    /\ ~queueLog.overlapped
    /\ ~queueLog.drained
    /\ Len(queueLog.called) = Cardinality(Mutations)
    /\ Len(Persisted) = Cardinality(Mutations)
    /\ Persisted[1].data = queueLog.called[1].data
    /\ Persisted[2].data = queueLog.called[2].data

\* C25: the key is deleted only when a network attempt has been made for
\* every entry it holds: at the step in which a drain's deleteItemAsync takes
\* effect, every persisted entry has been posted (enqueue calls that do not
\* overlap one another, interleaved with the drain in any way).
C25_DeletedOnlyAfterAttempt ==
    [][\A d \in Drains :
        (drain[d].pc = "deleteItem" /\ drain'[d].pc = "free" /\ ~queueLog.overlapped)
            => \A i \in 1..Len(Persisted) :
                    \E j \in 1..Len(queueLog.posted) : queueLog.posted[j] = Persisted[i]]_vars

\* C26: once the enqueue calls made have all returned, with no drain started,
\* the persisted queue holds an entry for every one of them, also when the
\* calls overlapped.
C26_OverlappingEnqueuesBothPersist ==
    (EnqueuesDone /\ ~queueLog.drained)
        => \A i \in 1..Len(queueLog.called) :
                \E j \in 1..Len(Persisted) :
                    /\ Persisted[j].endpoint = queueLog.called[i].endpoint
                    /\ Persisted[j].data = queueLog.called[i].data

\* The step resumes the drain in slot d after its post settled.
Resumes(d) == drain[d].pc = "post" /\ drain'[d] # drain[d]
\* The step is the drain's last: deleteItemAsync takes effect.
Deletes(d) == drain[d].pc = "deleteItem" /\ drain'[d].pc = "free"
ErrorRecord(action) == [operation |-> "processOfflineQueue", action |-> action]

Min(a, b) == IF a < b THEN a ELSE b

\* C24: a drain posts in append order and one entry at a time: the entries
\* posted so far are the entries before the loop position, every transmission
\* of its call slot, retransmissions included, carries the entry at the loop
\* position, and the loop moves on only when the call for that entry has
\* settled, after the last backoff retry when the backend kept failing.
C24_DrainFifoOneAtATime ==
    [][\A d \in Drains :
        LET c == CallOf(d) IN
        /\ drain[d].pc \in {"post", "deleteItem"}
            => drain[d].posted
                = SubSeq(drain[d].actions, 1, Min(drain[d].i, Len(drain[d].actions)))
        /\ stats'[c].nTx > stats[c].nTx
            => /\ drain[d].pc = "post"
               /\ drain'[d] = drain[d]
               /\ wire'[c].method = "post"
               /\ wire'[c].url = drain[d].actions[drain[d].i].endpoint
               /\ wire'[c].data = drain[d].actions[drain[d].i].data
        /\ Resumes(d)
            => /\ pc[c] \in {"resolved", "rejected"}
               /\ pc[c] = "rejected" => config[c].retryCount = RETRIES
               /\ pc'[c] = "idle"]_vars

C24_Witness ==
    \E d \in Drains :
        /\ drain[d].pc = "post"
        /\ drain[d].i = 2
        /\ pc[CallOf(d)] = "inflight"
        /\ stats[CallOf(d)].nTx = RETRIES + 3
        /\ config[CallOf(d)].retryCount = 1
        /\ wire[CallOf(d)].data = drain[d].actions[2].data
        /\ wire[CallOf(d)].data # drain[d].actions[1].data

Entries ==
    {[endpoint |-> a.endpoint, data |-> a.data, timestamp |-> now] :
        a \in OfflineActions, now \in Times}
\* setOnlineStatus(true) has just ended an offline period.
Reconnected == lastOp[1] = "setOnlineStatus" /\ lastOp[2] \in {"started", "skip:inProgress"}
PendingEntry(entry) == \E i \in 1..Len(Persisted) : Persisted[i] = entry
Posted(entry) == \E j \in 1..Len(queueLog.posted) : queueLog.posted[j] = entry

\* C21: every entry the persisted queue holds when setOnlineStatus(true) ends
\* an offline period is eventually posted.
C21_ReconnectDrainsQueue ==
    \A entry \in Entries : (Reconnected /\ PendingEntry(entry)) ~> Posted(entry)

\* C31: every forceSync call issues an upload attempt in the same step,
\* whatever syncInProgress and isOnline are.
C31_ForceSyncAlwaysUploads ==
    [][Calling("forceSync") => \E t \in Tasks : Begins(t) /\ Uploads(t)]_vars

\* C32: whenever no syncUserProgress or forceSync call is still executing,
\* syncInProgress is false.
C32_IdleMeansNotInProgress ==
    (Running = {} /\ continuations = <<>>) => ~syncInProgress

\* C34: isOnline = false and a sync cycle in flight never hold together.
C34_OfflineExcludesSyncing ==
    Running # {} => isOnline

\* C33: with every upload settling and every retry delay elapsing, a cycle
\* that has started finishes; it finishes in the step of a successful upload
\* or of the failure that finds the retry budget used up, and never
\* otherwise, and in that step syncUserProgress resets syncInProgress to false.
C33_CyclesTerminate ==
    /\ \A t \in Tasks : (task[t].pc # "free") ~> (task[t].pc = "free")
    /\ [][\A t \in Tasks :
            Ends(t)
                => /\ task[t].pc = "upload"
                   /\ lastOp'[1] = "performSync"
                   /\ lastOp'[2] \in {"synced", "failed"}
                   /\ lastOp'[2] = "failed" => task[t].retryCount = MAX_SYNC_RETRIES
                   /\ task[t].kind = "syncUserProgress" => ~syncInProgress']_vars

C33_Witness ==
    /\ lastOp = <<"performSync", "failed", "syncUserProgress", "resolved">>
    /\ Running = {}
    /\ ~syncInProgress
    /\ ~isOnline

\* The step is one of an offline queue operation.
QueueStep == <<offline_queue, enqueue, drain, queueLog>>' # <<offline_queue, enqueue, drain, queueLog>>
\* The step is one of startPeriodicSync or stopPeriodicSync.
TimerStep == <<syncIntervalId, timers>>' # <<syncIntervalId, timers>>

\* C35: isOnline changes only in a setOnlineStatus step and in the step in
\* which a cycle gives up after its last retry, which sets it to false; a
\* setOnlineStatus call that ends an offline period leaves it true; a cycle
\* that ends successfully, startPeriodicSync, stopPeriodicSync, a tick, the
\* queue operations leave it as it is, and getSyncStatus reports it unchanged.
C35_IsOnlineWrittenInTwoPlaces ==
    [][/\ isOnline' # isOnline
            => \/ lastOp'[1] = "setOnlineStatus" /\ ~QueueStep /\ ~TimerStep
               \/ Exhausts /\ ~isOnline'
       /\ (lastOp'[1] = "setOnlineStatus" /\ lastOp'[2] # "set" /\ lastOp' # lastOp)
            => isOnline'
       /\ (\E t \in Tasks : Ends(t) /\ lastOp'[2] = "synced") => isOnline' = isOnline
       /\ (QueueStep \/ TimerStep) => isOnline' = isOnline
       /\ getSyncStatus.isOnline = isOnline]_vars

C35_Witness ==
    /\ lastOp = <<"performSync", "synced", "syncUserProgress", "resolved">>
    /\ Running = {}
    /\ ~isOnline
    /\ syncIntervalId # 0
    /\ queueLog.posted # <<>>
    /\ offline_queue = NoItem

\* C36: no entry is handed to the request client more than once: the posts
\* made so far, by all drains together, are of distinct entries.
C36_EntryPostedAtMostOnce ==
    \A i, j \in 1..Len(queueLog.posted) :
        queueLog.posted[i] = queueLog.posted[j] => i = j

\* The step is the write of an enqueue call.
Writes(e) == enqueue[e].pc = "setItem" /\ enqueue'[e].pc = "free"

\* C37: hasPendingOfflineActions is true exactly when the persisted queue
\* holds at least one entry: the key never holds an empty list; the last
\* step of a drain leaves it false, and it becomes true again only by the
\* write of an enqueue call.
C37_HasPendingIffEntries ==
    /\ [](/\ hasPendingOfflineActions <=> Len(Persisted) >= 1
          /\ offline_queue.present => offline_queue.text # <<>>)
    /\ [][/\ \A d \in Drains : Deletes(d) => ~hasPendingOfflineActions'
          /\ (~hasPendingOfflineActions /\ hasPendingOfflineActions')
                => \E e \in Enqueues : Writes(e)]_vars

C37_Witness ==
    /\ \A d \in Drains : drain[d].pc = "free"
    /\ EnqueuesDone
    /\ Len(queueLog.posted) = Cardinality(Mutations)
    /\ Len(queueLog.called) = Cardinality(Mutations)
    /\ ~hasPendingOfflineActions

====
